---- MODULE Spec2Model ----
(***************************************************************************)
(* Model of scripts/llm_classifier.py: the section classifier that tries   *)
(* deterministic heuristics first, falls back to a language model, and     *)
(* normalizes whatever comes back into a classification record.            *)
(***************************************************************************)
EXTENDS Integers, Sequences, FiniteSets, TLC

VARIABLES
  pc,         \* position of main (or of the property harness)
  html,       \* payload.get("html", ""), a string
  context,    \* payload.get("context", "")
  heuristic,  \* value returned by heuristic_classify (None = JNull)
  out_text,   \* decoded model output, a string
  raw,        \* value returned by llm_classify / argument of normalize_result
  result,     \* outcome of normalize_result
  again,      \* outcome of a second normalize_result on the first result
  stdout,     \* JSON records printed on the result channel
  stderr,     \* diagnostic lines
  genCalls,   \* number of model.generate calls made
  exc         \* exception that left main ("none" when main returned)

vars == <<pc, html, context, heuristic, out_text, raw, result, again,
          stdout, stderr, genCalls, exc>>

(***************************************************************************)
(* Bounds of the explored input space.                                     *)
(***************************************************************************)
MaxColumns == 2      \* params {"columns": n} for n in 1..MaxColumns

MaxChunks == 2       \* section content of up to MaxChunks fragments

(***************************************************************************)
(* JSON-compatible Python values.  Every value carries all four fields so  *)
(* that values of different kinds can be compared.                         *)
(***************************************************************************)
EmptyMap == [key \in {} |-> key]

JNull == [k |-> "null", a |-> "", items |-> <<>>, fields |-> EmptyMap]

JBool(b) == [k |-> "bool", a |-> IF b THEN "true" ELSE "false",
             items |-> <<>>, fields |-> EmptyMap]

JNum(n) == [k |-> "num", a |-> n, items |-> <<>>, fields |-> EmptyMap]

JStr(s) == [k |-> "str", a |-> s, items |-> <<>>, fields |-> EmptyMap]

JList(s) == [k |-> "list", a |-> "", items |-> s, fields |-> EmptyMap]

JDict(m) == [k |-> "dict", a |-> "", items |-> <<>>, fields |-> m]

IsDict(v) == v.k = "dict"

\* Python truth value, as used by `x or default`
Truthy(v) ==
  CASE v.k = "null" -> FALSE
    [] v.k = "bool" -> v.a = "true"
    [] v.k = "num"  -> v.a # "0"
    [] v.k = "str"  -> v.a # ""
    [] v.k = "list" -> Len(v.items) > 0
    [] v.k = "dict" -> DOMAIN v.fields # {}

\* x or default
OrElse(v, default) == IF Truthy(v) THEN v ELSE default

\* d.get(key): None when the key is absent
Get(d, key) == IF key \in DOMAIN d.fields THEN d.fields[key] ELSE JNull

\* d[key] = v
SetItem(d, key, v) ==
  JDict([y \in DOMAIN d.fields \cup {key} |->
           IF y = key THEN v ELSE d.fields[y]])

\* lists and dicts cannot be looked up in a set
Hashable(v) == v.k \notin {"list", "dict"}

\* outcome of a call: a returned value or a raised exception
Return(v) == [ok |-> TRUE, val |-> v, exc |-> "none"]

Raise(e) == [ok |-> FALSE, val |-> JNull, exc |-> e]

NoOutcome == [ok |-> FALSE, val |-> JNull, exc |-> "unset"]

(***************************************************************************)
(* Schema                                                                  *)
(***************************************************************************)
allowed_module_types ==
  {"hero", "feature_grid", "steps_grid", "pricing_table",
   "testimonials_slider", "contact_form", "nav", "footer", "code", "generic"}

\* the section types the prompt enumerates
section_types ==
  {"hero", "features", "steps", "pricing", "testimonials", "contact",
   "nav", "footer", "generic"}

Record(type, module_type, params, source) ==
  JDict([type |-> JStr(type),
         builder |-> JDict([divi |-> JDict([module_type |-> JStr(module_type),
                                            params |-> JDict(params)])]),
         source |-> JStr(source)])

(***************************************************************************)
(* normalize_result                                                        *)
(***************************************************************************)
\* result.get("type") or "generic"
TypeOf(res) == OrElse(Get(res, "type"), JStr("generic"))

\* a normalizer that lets any module_type through
ClampModuleTypeKeep(module_type) == module_type

\* `module_type not in allowed` branch of normalize_result
ClampModuleType(module_type) ==
  IF ~(module_type.k = "str" /\ module_type.a \in allowed_module_types)
    THEN (IF module_type # JStr("code") THEN JStr("generic") ELSE JStr("code"))
    ELSE module_type

\* params is kept only when present and a dict
FixParams(divi) ==
  IF "params" \notin DOMAIN divi.fields \/ ~IsDict(divi.fields["params"])
    THEN SetItem(divi, "params", JDict(EmptyMap))
    ELSE divi

\* default source if missing
DefaultSource(res) ==
  IF "source" \notin DOMAIN res.fields
    THEN SetItem(res, "source", JStr("llm"))
    ELSE res

normalize_result(arg) ==
  LET res     == IF ~IsDict(arg) THEN JDict(EmptyMap) ELSE arg
      rtype   == TypeOf(res)
      builder == OrElse(Get(res, "builder"), JDict(EmptyMap))
  IN
  IF ~IsDict(builder) THEN Raise("AttributeError")     \* builder.get
  ELSE
    LET divi == OrElse(Get(builder, "divi"), JDict(EmptyMap)) IN
    IF ~IsDict(divi) THEN Raise("AttributeError")      \* divi.get
    ELSE
      LET mt0 == OrElse(Get(divi, "module_type"), JStr("generic")) IN
      IF ~Hashable(mt0) THEN Raise("TypeError")        \* mt0 not in allowed
      ELSE
        LET divi1    == FixParams(SetItem(divi, "module_type", ClampModuleType(mt0)))
            builder1 == SetItem(builder, "divi", divi1)
            res1     == SetItem(SetItem(res, "builder", builder1), "type", rtype)
        IN Return(DefaultSource(res1))

(***************************************************************************)
(* Text helpers.  Text is a string, i.e. a string.         *)
(***************************************************************************)
\* the character at position i, "" outside the text
Char(s, i) == IF i \in 1..Len(s) THEN SubSeq(s, i, i) ELSE ""

Rest(s) == SubSeq(s, 2, Len(s))

\* s[i-1:j], cut at the end of the text
Slice(s, i, j) == SubSeq(s, i, IF j > Len(s) THEN Len(s) ELSE j)

\* the characters \s matches and str.strip() removes
Whitespace == {" ", "\n", "\t"}

UpperCase == "ABCDEFGHIJKLMNOPQRSTUVWXYZ"

LowerCase == "abcdefghijklmnopqrstuvwxyz"

LowerChar(c) ==
  IF \E i \in 1..26 : Char(UpperCase, i) = c
    THEN Char(LowerCase, CHOOSE i \in 1..26 : Char(UpperCase, i) = c)
    ELSE c

RECURSIVE Lower(_)
\* str.lower()
Lower(s) == IF s = "" THEN "" ELSE LowerChar(Char(s, 1)) \o Lower(Rest(s))

RECURSIVE LStrip(_)
LStrip(s) ==
  IF s # "" /\ Char(s, 1) \in Whitespace THEN LStrip(Rest(s)) ELSE s

RECURSIVE RStrip(_)
RStrip(s) ==
  IF s # "" /\ Char(s, Len(s)) \in Whitespace
    THEN RStrip(SubSeq(s, 1, Len(s) - 1))
    ELSE s

\* str.strip()
Strip(s) == RStrip(LStrip(s))

RECURSIVE CollapseWs(_)
\* re.sub(r"\s+", " ", s)
CollapseWs(s) ==
  IF s = "" THEN ""
  ELSE IF Char(s, 1) \in Whitespace THEN " " \o CollapseWs(LStrip(s))
  ELSE Char(s, 1) \o CollapseWs(Rest(s))

normalize_whitespace(s) == Strip(CollapseWs(s))

RECURSIVE IndexFrom(_, _, _)
\* index of the first occurrence of character c at or after position i, 0 if none
IndexFrom(s, c, i) ==
  IF i > Len(s) THEN 0
  ELSE IF Char(s, i) = c THEN i
  ELSE IndexFrom(s, c, i + 1)

RECURSIVE LastIndexFrom(_, _, _)
\* index of the last occurrence of character c at or before position i, 0 if none
LastIndexFrom(s, c, i) ==
  IF i < 1 THEN 0
  ELSE IF Char(s, i) = c THEN i
  ELSE LastIndexFrom(s, c, i - 1)

\* index of the last occurrence of character c, 0 if none
LastIndex(s, c) == LastIndexFrom(s, c, Len(s))

RECURSIVE StripTags(_)
\* re.sub(r"<[^>]+>", " ", html)
StripTags(s) ==
  IF s = "" THEN ""
  ELSE IF Char(s, 1) = "<" /\ IndexFrom(s, ">", 2) > 2
         THEN " " \o StripTags(SubSeq(s, IndexFrom(s, ">", 2) + 1, Len(s)))
         ELSE Char(s, 1) \o StripTags(Rest(s))

\* pat in text
Contains(text, pat) ==
  \E i \in 1..(Len(text) - Len(pat) + 1) :
     SubSeq(text, i, i + Len(pat) - 1) = pat

(***************************************************************************)
(* heuristic_classify                                                      *)
(***************************************************************************)
IsPricing(text) == Contains(text, "pricing") /\ Contains(text, "$")

IsTestimonials(text) ==
  \/ Contains(text, "testimonial")
  \/ Contains(text, "what our clients say")
  \/ Contains(text, "saved me hours")

IsContact(text) ==
  /\ (Contains(text, "contact") \/ Contains(text, "send message"))
  /\ (Contains(text, "email") \/ Contains(text, "message") \/ Contains(text, "form"))

IsSteps(text) ==
  \/ Contains(text, "how it works")
  \/ Contains(text, "three steps")
  \/ Contains(text, "step 01")

IsFeatures(text) ==
  /\ Contains(text, "features")
  /\ (Contains(text, "why use") \/ Contains(text, "bridge"))

IsHero(text) ==
  \/ Contains(text, "wordPress in seconds")
  \/ Contains(text, "gemini pro layouts")
  \/ Contains(text, "stop rebuilding ai designs")

IsSecurity(text) ==
  \/ Contains(text, "secure by design")
  \/ Contains(text, "no api keys required")

IsFooter(text) == Contains(text, "&copy") \/ Contains(text, "all rights reserved")

IsNav(text) ==
  \/ Contains(text, "#pricing")
  \/ Contains(text, "#features")
  \/ Contains(text, "#how-it-works")

PricingRecord ==
  Record("pricing", "pricing_table",
         [columns |-> JNum("2"), has_primary_plan |-> JBool(TRUE)], "heuristic")

TestimonialsRecord == Record("testimonials", "testimonials_slider", EmptyMap, "heuristic")

ContactRecord == Record("contact", "contact_form", EmptyMap, "heuristic")

StepsRecord == Record("steps", "steps_grid", [columns |-> JNum("3")], "heuristic")

FeaturesRecord == Record("features", "feature_grid", EmptyMap, "heuristic")

HeroRecord == Record("hero", "hero", EmptyMap, "heuristic")

SecurityRecord == Record("generic", "feature_grid", EmptyMap, "heuristic")

FooterRecord == Record("footer", "footer", EmptyMap, "heuristic")

NavRecord == Record("nav", "nav", EmptyMap, "heuristic")

\* the text the rules are tested on
HeuristicText(h) == Lower(normalize_whitespace(StripTags(h)))

\* a cascade that tests the nav rule before the pricing rule
CascadeNavFirst(text) ==
  IF IsNav(text) THEN NavRecord
  ELSE IF IsPricing(text) THEN PricingRecord
  ELSE IF IsTestimonials(text) THEN TestimonialsRecord
  ELSE IF IsContact(text) THEN ContactRecord
  ELSE IF IsSteps(text) THEN StepsRecord
  ELSE IF IsFeatures(text) THEN FeaturesRecord
  ELSE IF IsHero(text) THEN HeroRecord
  ELSE IF IsSecurity(text) THEN SecurityRecord
  ELSE IF IsFooter(text) THEN FooterRecord
  ELSE JNull

\* the priority cascade over the text
Cascade(text) ==
  IF IsPricing(text) THEN PricingRecord
  ELSE IF IsTestimonials(text) THEN TestimonialsRecord
  ELSE IF IsContact(text) THEN ContactRecord
  ELSE IF IsSteps(text) THEN StepsRecord
  ELSE IF IsFeatures(text) THEN FeaturesRecord
  ELSE IF IsHero(text) THEN HeroRecord
  ELSE IF IsSecurity(text) THEN SecurityRecord
  ELSE IF IsFooter(text) THEN FooterRecord
  ELSE IF IsNav(text) THEN NavRecord
  ELSE JNull

heuristic_classify(h) == Cascade(HeuristicText(h))

(***************************************************************************)
(* json.dumps and json.loads.  Keys are written in one fixed order (the    *)
(* order of a Python dict does not affect the value read back).  Numbers   *)
(* are integers; escape sequences do not occur in the explored texts.      *)
(***************************************************************************)
KeyOrder ==
  <<"type", "builder", "divi", "module_type", "params", "source", "columns",
    "has_primary_plan", "name", "a">>

KeysOf(v) == SelectSeq(KeyOrder, LAMBDA key : key \in DOMAIN v.fields)

RECURSIVE Dumps(_)
RECURSIVE DumpsItems(_, _)
RECURSIVE DumpsMembers(_, _, _)
Dumps(v) ==
  CASE v.k = "null" -> "null"
    [] v.k = "bool" -> v.a
    [] v.k = "num"  -> v.a
    [] v.k = "str"  -> "\"" \o v.a \o "\""
    [] v.k = "list" -> "[" \o DumpsItems(v.items, 1) \o "]"
    [] v.k = "dict" -> "{" \o DumpsMembers(v, KeysOf(v), 1) \o "}"

DumpsItems(items, i) ==
  IF i > Len(items) THEN ""
  ELSE Dumps(items[i]) \o (IF i < Len(items) THEN ", " ELSE "")
       \o DumpsItems(items, i + 1)

DumpsMembers(v, keys, i) ==
  IF i > Len(keys) THEN ""
  ELSE "\"" \o keys[i] \o "\": " \o Dumps(v.fields[keys[i]])
       \o (IF i < Len(keys) THEN ", " ELSE "")
       \o DumpsMembers(v, keys, i + 1)

Digits == {"0", "1", "2", "3", "4", "5", "6", "7", "8", "9"}

RECURSIVE SkipWs(_, _)
\* first position at or after i that holds no whitespace
SkipWs(s, i) ==
  IF Char(s, i) \in Whitespace THEN SkipWs(s, i + 1) ELSE i

RECURSIVE SkipDigits(_, _)
\* first position at or after i that holds no digit
SkipDigits(s, i) ==
  IF Char(s, i) \in Digits THEN SkipDigits(s, i + 1) ELSE i

Parsed(v, next) == [ok |-> TRUE, val |-> v, pos |-> next]

ParseFail == [ok |-> FALSE, val |-> JNull, pos |-> 0]

\* a string literal opening at position i
ParseString(s, i) ==
  LET close == IndexFrom(s, "\"", i + 1) IN
  IF close = 0 \/ \E h \in (i + 1)..(close - 1) : Char(s, h) \in {"\n", "\t"}
    THEN ParseFail
    ELSE Parsed(JStr(SubSeq(s, i + 1, close - 1)), close + 1)

\* -?(0|[1-9][0-9]*) at position i
ParseNumber(s, i) ==
  LET first == IF Char(s, i) = "-" THEN i + 1 ELSE i
      stop  == IF Char(s, first) = "0" THEN first + 1 ELSE SkipDigits(s, first)
  IN IF Char(s, first) \notin Digits THEN ParseFail
     ELSE Parsed(JNum(SubSeq(s, i, stop - 1)), stop)

RECURSIVE ParseValue(_, _)
RECURSIVE ParseMembers(_, _, _)
RECURSIVE ParseItems(_, _, _)
\* the JSON value starting at position i (whitespace already skipped)
ParseValue(s, i) ==
  LET c == Char(s, i) IN
  CASE c = "{" ->
         (IF Char(s, SkipWs(s, i + 1)) = "}"
            THEN Parsed(JDict(EmptyMap), SkipWs(s, i + 1) + 1)
            ELSE ParseMembers(s, SkipWs(s, i + 1), EmptyMap))
    [] c = "[" ->
         (IF Char(s, SkipWs(s, i + 1)) = "]"
            THEN Parsed(JList(<<>>), SkipWs(s, i + 1) + 1)
            ELSE ParseItems(s, SkipWs(s, i + 1), <<>>))
    [] c = "\"" -> ParseString(s, i)
    [] c = "-" \/ c \in Digits -> ParseNumber(s, i)
    [] c = "n" -> (IF Slice(s, i, i + 3) = "null"
                     THEN Parsed(JNull, i + 4) ELSE ParseFail)
    [] c = "t" -> (IF Slice(s, i, i + 3) = "true"
                     THEN Parsed(JBool(TRUE), i + 4) ELSE ParseFail)
    [] c = "f" -> (IF Slice(s, i, i + 4) = "false"
                     THEN Parsed(JBool(FALSE), i + 5) ELSE ParseFail)
    [] OTHER -> ParseFail

\* "key": value pairs of an object, from the key at position i
ParseMembers(s, i, acc) ==
  IF Char(s, i) # "\"" THEN ParseFail
  ELSE
    LET key == ParseString(s, i) IN
    IF ~key.ok THEN ParseFail
    ELSE
      LET colon == SkipWs(s, key.pos) IN
      IF Char(s, colon) # ":" THEN ParseFail
      ELSE
        LET v == ParseValue(s, SkipWs(s, colon + 1)) IN
        IF ~v.ok THEN ParseFail
        ELSE
          LET after == SkipWs(s, v.pos)
              acc1  == [y \in DOMAIN acc \cup {key.val.a} |->
                          IF y = key.val.a THEN v.val ELSE acc[y]]
          IN
          IF Char(s, after) = "," THEN ParseMembers(s, SkipWs(s, after + 1), acc1)
          ELSE IF Char(s, after) = "}" THEN Parsed(JDict(acc1), after + 1)
          ELSE ParseFail

\* elements of an array, from the element at position i
ParseItems(s, i, acc) ==
  LET v == ParseValue(s, i) IN
  IF ~v.ok THEN ParseFail
  ELSE
    LET after == SkipWs(s, v.pos) IN
    IF Char(s, after) = "," THEN ParseItems(s, SkipWs(s, after + 1), Append(acc, v.val))
    ELSE IF Char(s, after) = "]" THEN Parsed(JList(Append(acc, v.val)), after + 1)
    ELSE ParseFail

\* json.loads
Loads(s) ==
  LET v == ParseValue(s, SkipWs(s, 1)) IN
  IF v.ok /\ SkipWs(s, v.pos) = Len(s) + 1
    THEN Return(v.val)
    ELSE Raise("JSONDecodeError")

(***************************************************************************)
(* extract_json and the tail of llm_classify                               *)
(***************************************************************************)
\* re.search(r"\{[\s\S]*\}", text): first "{" up to the last "}" after it
extract_json(text) ==
  LET open  == IndexFrom(text, "{", 1)
      close == LastIndex(text, "}")
  IN IF open > 0 /\ close > open
       THEN SubSeq(text, open, close)
       ELSE Strip(text)

\* a classifier that keeps the "source" the model wrote
ParseModelOutputKeepSource(text) ==
  LET data == Loads(extract_json(text)) IN
  IF ~data.ok THEN Raise("ValueError")
  ELSE IF ~IsDict(data.val) THEN Raise("TypeError")
  ELSE Return(data.val)

\* llm_classify from the decoded model output on
ParseModelOutput(text) ==
  LET data == Loads(extract_json(text)) IN
  IF ~data.ok THEN Raise("ValueError")             \* Failed to parse LLM JSON
  ELSE IF ~IsDict(data.val) THEN Raise("TypeError") \* data["source"] = ...
  ELSE Return(SetItem(data.val, "source", JStr("llm")))

(***************************************************************************)
(* JSON values fed to normalize_result                                     *)
(***************************************************************************)
Absent == [k |-> "absent", a |-> "", items |-> <<>>, fields |-> EmptyMap]

\* a dict holding the given entries, leaving out the absent ones
MkDict(m) == JDict([y \in {z \in DOMAIN m : m[z] # Absent} |-> m[y]])

TypeVals ==
  {Absent, JNull, JStr(""), JStr("hero"), JStr("not-a-real-type"), JNum("5"),
   JList(<<>>), JList(<<JStr("hero")>>)}

ModuleTypeVals ==
  {Absent, JNull, JStr("hero"), JStr("code"), JStr("generic"), JStr("bogus"),
   JNum("5"), JBool(TRUE), JList(<<>>), JList(<<JStr("hero")>>),
   JDict(EmptyMap), JDict([name |-> JStr("hero")])}

ParamsVals ==
  {Absent, JNull, JStr("x"), JNum("0"), JList(<<>>), JList(<<JNum("2")>>),
   JDict(EmptyMap)}
  \cup {JDict([columns |-> JNum(ToString(n))]) : n \in 1..MaxColumns}

DiviVals ==
  {Absent, JNull, JStr("x"), JNum("0"), JNum("5"), JList(<<>>),
   JList(<<JStr("hero")>>)}
  \cup {MkDict([module_type |-> mt, params |-> p]) :
          mt \in ModuleTypeVals, p \in ParamsVals}

BuilderVals ==
  {Absent, JNull, JStr("x"), JBool(TRUE), JBool(FALSE), JList(<<>>),
   JList(<<JStr("divi")>>)}
  \cup {MkDict([divi |-> d]) : d \in DiviVals}

SourceVals == {Absent, JNull, JStr("heuristic"), JStr("default")}

JsonInputs ==
  {JNull, JBool(TRUE), JNum("0"), JNum("5"), JStr(""), JStr("hero"),
   JList(<<>>), JList(<<JStr("hero")>>)}
  \cup {MkDict([type |-> t, builder |-> b, source |-> s]) :
          t \in TypeVals, b \in BuilderVals, s \in SourceVals}

(***************************************************************************)
(* Harness for normalize_result as a function: draw an argument, apply     *)
(* the function, apply it again to what it returned.                       *)
(***************************************************************************)
Idle ==
  /\ html = "" /\ context = "" /\ heuristic = JNull /\ out_text = ""
  /\ stdout = <<>> /\ stderr = <<>> /\ genCalls = 0 /\ exc = "none"

InitNorm ==
  /\ Idle
  /\ pc = "norm_arg"
  /\ raw \in JsonInputs
  /\ result = NoOutcome
  /\ again = NoOutcome

NormalizeOnce ==
  /\ pc = "norm_arg"
  /\ result' = normalize_result(raw)
  /\ pc' = "norm_once"
  /\ UNCHANGED <<html, context, heuristic, out_text, raw, again, stdout,
                 stderr, genCalls, exc>>

NormalizeAgain ==
  /\ pc = "norm_once"
  /\ result.ok
  /\ again' = normalize_result(result.val)
  /\ pc' = "norm_twice"
  /\ UNCHANGED <<html, context, heuristic, out_text, raw, result, stdout,
                 stderr, genCalls, exc>>

NextNorm == NormalizeOnce \/ NormalizeAgain

SpecNorm == InitNorm /\ [][NextNorm]_vars

(***************************************************************************)
(* C4: normalize_result is total -- for any JSON-compatible argument it    *)
(* returns a record and never raises.                                      *)
(***************************************************************************)
C4_NormalizerTotal ==
  pc = "norm_once" => (result.ok /\ IsDict(result.val))

(***************************************************************************)
(* C5: normalize_result is idempotent -- for every argument x,             *)
(* normalize_result(normalize_result(x)) equals normalize_result(x).       *)
(***************************************************************************)
C5_NormalizerIdempotent ==
  /\ pc \in {"norm_once", "norm_twice"} => result.ok
  /\ pc = "norm_twice" => (again.ok /\ again.val = result.val)

\* wherever normalize_result returns, applying it again changes nothing
IdempotentWhereDefined ==
  pc = "norm_twice" => (again.ok /\ again.val = result.val)

(***************************************************************************)
(* Harness for heuristic_classify as a function: draw a section, classify. *)
(***************************************************************************)
HtmlChunks ==
  {"Pricing $9", "pricing", "$", "Testimonial", "Send Message", "contact",
   "email", "How It Works", "features", "bridge", "WordPress in seconds",
   "Gemini Pro Layouts", "Secure by Design", "&copy", "#pricing", "#features",
   "<b>", "<", ">", " ", "\n", "hello", "pri", "cing"}

RECURSIVE Concats(_, _)
\* the texts made of up to n fragments of chunks
Concats(chunks, n) ==
  IF n = 0 THEN {""}
  ELSE LET shorter == Concats(chunks, n - 1)
       IN shorter \cup {p \o c : p \in shorter, c \in chunks}

InitHeur ==
  /\ pc = "heur_arg"
  /\ html \in Concats(HtmlChunks, MaxChunks)
  /\ context = "" /\ heuristic = JNull /\ out_text = "" /\ raw = JNull
  /\ result = NoOutcome /\ again = NoOutcome
  /\ stdout = <<>> /\ stderr = <<>> /\ genCalls = 0 /\ exc = "none"

ClassifyHeuristic ==
  /\ pc = "heur_arg"
  /\ heuristic' = heuristic_classify(html)
  /\ pc' = "heur_done"
  /\ UNCHANGED <<html, context, out_text, raw, result, again, stdout, stderr,
                 genCalls, exc>>

NextHeur == ClassifyHeuristic

SpecHeur == InitHeur /\ [][NextHeur]_vars

\* the rule table in its registration order
RuleOrder ==
  <<"pricing", "testimonials", "contact", "steps", "features", "hero",
    "security", "footer", "nav">>

RuleMatches(name, text) ==
  CASE name = "pricing"      -> IsPricing(text)
    [] name = "testimonials" -> IsTestimonials(text)
    [] name = "contact"      -> IsContact(text)
    [] name = "steps"        -> IsSteps(text)
    [] name = "features"     -> IsFeatures(text)
    [] name = "hero"         -> IsHero(text)
    [] name = "security"     -> IsSecurity(text)
    [] name = "footer"       -> IsFooter(text)
    [] name = "nav"          -> IsNav(text)

RuleRecord(name) ==
  CASE name = "pricing"      -> PricingRecord
    [] name = "testimonials" -> TestimonialsRecord
    [] name = "contact"      -> ContactRecord
    [] name = "steps"        -> StepsRecord
    [] name = "features"     -> FeaturesRecord
    [] name = "hero"         -> HeroRecord
    [] name = "security"     -> SecurityRecord
    [] name = "footer"       -> FooterRecord
    [] name = "nav"          -> NavRecord

MatchingRules(h) ==
  {i \in 1..Len(RuleOrder) : RuleMatches(RuleOrder[i], HeuristicText(h))}

FirstOf(S) == CHOOSE i \in S : \A j \in S : i <= j

(***************************************************************************)
(* C9: heuristic_classify returns the record of the first rule, in the     *)
(* order pricing, testimonials, contact, steps, features, hero, security,  *)
(* footer, nav, whose predicate matches the tag-stripped, whitespace-      *)
(* collapsed, lower-cased text, and None only when no rule matches.        *)
(***************************************************************************)
C9_HeuristicPriority ==
  pc = "heur_done" =>
    IF MatchingRules(html) = {}
      THEN heuristic = JNull
      ELSE heuristic = RuleRecord(RuleOrder[FirstOf(MatchingRules(html))])

\* a section matching two rules was given the earlier rule's record
C9_Witness ==
  /\ pc = "heur_done"
  /\ Cardinality(MatchingRules(html)) >= 2
  /\ heuristic = RuleRecord(RuleOrder[FirstOf(MatchingRules(html))])

(***************************************************************************)
(* main: the pipeline                                                      *)
(***************************************************************************)
\* record printed for blank content
EmptyRecord == Record("generic", "code", EmptyMap, "empty")

\* a last-resort record tagged as if the model had produced it
FallbackRecordAsLlm == Record("generic", "code", EmptyMap, "llm")

\* last-resort record printed when llm_classify raises
FallbackRecord == Record("generic", "code", EmptyMap, "fallback_error")

LoadingLine == "[llm_classifier] Loading model"

LlmErrorLine == "[llm_classifier] LLM error"

ReadErrorLine == "[llm_classifier] Failed to read stdin"

\* print(json.dumps(rec))
WriteRecord(rec) == Append(stdout, Dumps(rec))

\* section contents the pipeline is run on
MainChunks == {" ", "<div>", "hello", "Pricing $9", "#features"}

Contexts == {"", "landing page"}

\* JSON objects the model may answer with
LlmModuleTypes ==
  {Absent, JStr("hero"), JStr("bogus"), JNum("5"), JList(<<JStr("hero")>>)}

LlmParams ==
  {Absent, JNull, JList(<<JNum("2")>>), JDict(EmptyMap)}
  \cup {JDict([columns |-> JNum(ToString(n))]) : n \in 1..MaxColumns}

LlmDivis ==
  {JStr("x"), JDict(EmptyMap)}
  \cup {MkDict([module_type |-> mt, params |-> p]) :
          mt \in LlmModuleTypes, p \in LlmParams}

LlmBuilders ==
  {Absent, JStr("x"), JList(<<JStr("divi")>>)}
  \cup {MkDict([divi |-> d]) : d \in LlmDivis}

LlmObjects ==
  {MkDict([type |-> t, builder |-> b, source |-> s]) :
     t \in {Absent, JStr("hero"), JStr("not-a-real-type")},
     b \in LlmBuilders,
     s \in {Absent, JStr("heuristic")}}

\* the text with a comma put before its closing brace
WithTrailingComma(t) == SubSeq(t, 1, Len(t) - 1) \o ",}"

\* the text with a // comment put before its closing brace
WithLineComment(t) == SubSeq(t, 1, Len(t) - 1) \o " // comment\n}"

\* objects also answered in a near-miss syntax
SloppyObjects ==
  {JDict([a |-> JNum("1")]),
   JDict([type |-> JStr("hero")]),
   Record("pricing", "pricing_table", [columns |-> JNum("2")], "heuristic")}

\* decoded outputs of the model
LlmTexts ==
  {Dumps(v) : v \in LlmObjects}
  \cup {WithTrailingComma(Dumps(v)) : v \in SloppyObjects}
  \cup {WithLineComment(Dumps(v)) : v \in SloppyObjects}
  \cup {"noise " \o Dumps(v) \o " trailing" : v \in SloppyObjects}
  \cup {"{\"a\":1,}", "{\"a\":1 // comment\n}", "noise {\"a\":1} trailing"}
  \cup {"I cannot help with that.", "", "5", "null", "[1, 2]", "{",
        "} {", "{\"type\": \"hero\"} }", "{\"type\": hero}"}

Init ==
  /\ pc = "start"
  /\ html = "" /\ context = "" /\ heuristic = JNull /\ out_text = ""
  /\ raw = JNull /\ result = NoOutcome /\ again = NoOutcome
  /\ stdout = <<>> /\ stderr = <<>> /\ genCalls = 0 /\ exc = "none"

\* payload = read_stdin_payload(); html, context = payload.get(...)
ReadPayload ==
  /\ pc = "start"
  /\ html' \in Concats(MainChunks, MaxChunks)
  /\ context' \in Contexts
  /\ pc' = "read"
  /\ UNCHANGED <<heuristic, out_text, raw, result, again, stdout, stderr,
                 genCalls, exc>>

\* read_stdin_payload raises: sys.exit(1)
ReadFails ==
  /\ pc = "start"
  /\ stderr' = Append(stderr, ReadErrorLine)
  /\ exc' = "SystemExit"
  /\ pc' = "exit"
  /\ UNCHANGED <<html, context, heuristic, out_text, raw, result, again,
                 stdout, genCalls>>

\* if not html.strip(): print the empty record
EmptyInput ==
  /\ pc = "read"
  /\ Strip(html) = ""
  /\ stdout' = WriteRecord(EmptyRecord)
  /\ pc' = "done"
  /\ UNCHANGED <<html, context, heuristic, out_text, raw, result, again,
                 stderr, genCalls, exc>>

\* heuristic is not None: normalize and print it
HeuristicHit ==
  /\ pc = "read"
  /\ Strip(html) # ""
  /\ heuristic_classify(html) # JNull
  /\ heuristic' = heuristic_classify(html)
  /\ result' = normalize_result(heuristic')
  /\ IF result'.ok
       THEN stdout' = WriteRecord(result'.val) /\ pc' = "done" /\ exc' = exc
       ELSE stdout' = stdout /\ pc' = "crashed" /\ exc' = result'.exc
  /\ UNCHANGED <<html, context, out_text, raw, again, stderr, genCalls>>

\* heuristic is None: go on to the model
HeuristicMiss ==
  /\ pc = "read"
  /\ Strip(html) # ""
  /\ heuristic_classify(html) = JNull
  /\ heuristic' = JNull
  /\ pc' = "llm"
  /\ UNCHANGED <<html, context, out_text, raw, result, again, stdout, stderr,
                 genCalls, exc>>

\* except Exception: log and print the fallback record
WriteFallback(log) ==
  /\ stderr' = stderr \o log \o <<LlmErrorLine>>
  /\ stdout' = WriteRecord(FallbackRecord)
  /\ pc' = "done"

\* loading the model or tokenizing raises inside llm_classify
ModelLoadFails ==
  /\ pc = "llm"
  /\ WriteFallback(<<LoadingLine>>)
  /\ UNCHANGED <<html, context, heuristic, out_text, raw, result, again,
                 genCalls, exc>>

\* model.generate raises inside llm_classify
GenerateFails ==
  /\ pc = "llm"
  /\ genCalls' = genCalls + 1
  /\ WriteFallback(<<LoadingLine>>)
  /\ UNCHANGED <<html, context, heuristic, out_text, raw, result, again, exc>>

\* the model answers, but llm_classify raises on its text
LlmParseFails ==
  /\ pc = "llm"
  /\ \E t \in LlmTexts :
       /\ ~ParseModelOutput(t).ok
       /\ out_text' = t
  /\ genCalls' = genCalls + 1
  /\ WriteFallback(<<LoadingLine>>)
  /\ UNCHANGED <<html, context, heuristic, raw, result, again, exc>>

\* raw = llm_classify(html, context) returns
LlmClassified ==
  /\ pc = "llm"
  /\ \E t \in LlmTexts :
       /\ ParseModelOutput(t).ok
       /\ out_text' = t
       /\ raw' = ParseModelOutput(t).val
  /\ genCalls' = genCalls + 1
  /\ stderr' = Append(stderr, LoadingLine)
  /\ pc' = "classified"
  /\ UNCHANGED <<html, context, heuristic, result, again, stdout, exc>>

\* result = normalize_result(raw); print(json.dumps(result))
EmitNormalized ==
  /\ pc = "classified"
  /\ normalize_result(raw).ok
  /\ result' = normalize_result(raw)
  /\ stdout' = WriteRecord(result'.val)
  /\ pc' = "done"
  /\ UNCHANGED <<html, context, heuristic, out_text, raw, again, stderr,
                 genCalls, exc>>

\* normalize_result(raw) raises outside any try: the exception leaves main
NormalizeRaises ==
  /\ pc = "classified"
  /\ ~normalize_result(raw).ok
  /\ result' = normalize_result(raw)
  /\ exc' = result'.exc
  /\ pc' = "crashed"
  /\ UNCHANGED <<html, context, heuristic, out_text, raw, again, stdout,
                 stderr, genCalls>>

Next ==
  \/ ReadPayload
  \/ ReadFails
  \/ EmptyInput
  \/ HeuristicHit
  \/ HeuristicMiss
  \/ ModelLoadFails
  \/ GenerateFails
  \/ LlmParseFails
  \/ LlmClassified
  \/ EmitNormalized
  \/ NormalizeRaises

Spec == Init /\ [][Next]_vars

\* main has ended after reading a payload
Ended == pc \in {"done", "crashed"}

\* the i-th record on the result channel, read back
Emitted(i) == Loads(stdout[i]).val

Divi(rec) == Get(Get(rec, "builder"), "divi")

\* llm_classify raised and main logged it
LlmErrorLogged == \E i \in 1..Len(stderr) : stderr[i] = LlmErrorLine

(***************************************************************************)
(* C1: the entry point never fails -- whenever main ends after reading a   *)
(* payload, it has written exactly one JSON record to the result channel   *)
(* and no error has propagated to the caller.                              *)
(***************************************************************************)
C1_NeverFails ==
  Ended => (Len(stdout) = 1 /\ Loads(stdout[1]).ok /\ exc = "none")

(***************************************************************************)
(* C2: in every record that leaves the pipeline the section type is a      *)
(* member of the section type-set (a missing or unknown type comes out as  *)
(* "generic").                                                             *)
(***************************************************************************)
C2_TypeClamped ==
  \A i \in 1..Len(stdout) :
    Get(Emitted(i), "type") \in {JStr(t) : t \in section_types}

(***************************************************************************)
(* C3: in every record main emits, builder.divi.module_type is a member    *)
(* of allowed_module_types() and builder.divi.params is a mapping.         *)
(***************************************************************************)
C3_ModuleInvariant ==
  \A i \in 1..Len(stdout) :
    /\ Loads(stdout[i]).ok
    /\ IsDict(Divi(Emitted(i)))
    /\ Get(Divi(Emitted(i)), "module_type") \in {JStr(t) : t \in allowed_module_types}
    /\ "params" \in DOMAIN Divi(Emitted(i)).fields
    /\ IsDict(Get(Divi(Emitted(i)), "params"))

\* the model named an unknown module with list params, and the record came
\* out with module "generic" and empty params
C3_Witness ==
  /\ pc = "done" /\ genCalls = 1 /\ Len(stdout) = 1
  /\ Get(Divi(raw), "module_type") = JStr("bogus")
  /\ Get(Divi(raw), "params") = JList(<<JNum("2")>>)
  /\ Get(Divi(Emitted(1)), "module_type") = JStr("generic")
  /\ Get(Divi(Emitted(1)), "params") = JDict(EmptyMap)

\* main ended with the default record: blank content, or llm_classify failed
Degraded == pc = "done" /\ (Strip(html) = "" \/ LlmErrorLogged)

RECURSIVE StripLineComments(_)
\* the text without its // comments (each runs to the end of its line)
StripLineComments(s) ==
  IF s = "" THEN ""
  ELSE IF Slice(s, 1, 2) = "//"
         THEN (IF IndexFrom(s, "\n", 1) = 0 THEN ""
               ELSE StripLineComments(SubSeq(s, IndexFrom(s, "\n", 1), Len(s))))
         ELSE Char(s, 1) \o StripLineComments(Rest(s))

RECURSIVE StripTrailingCommas(_)
\* the text without the commas that directly precede a closing brace or bracket
StripTrailingCommas(s) ==
  IF s = "" THEN ""
  ELSE IF Char(s, 1) = "," /\ Char(s, SkipWs(s, 2)) \in {"}", "]"}
         THEN StripTrailingCommas(Rest(s))
         ELSE Char(s, 1) \o StripTrailingCommas(Rest(s))

\* the object text of a model output with the two defects repaired
Repaired(text) == StripTrailingCommas(StripLineComments(extract_json(text)))

(***************************************************************************)
(* C7: when the model output is a JSON object whose only defect is a       *)
(* trailing comma before a closing brace/bracket or a // comment, it is    *)
(* parsed to the same object as the defect-free text and the pipeline      *)
(* goes on with the generated record rather than the error fallback.       *)
(***************************************************************************)
C7_SyntaxRepair ==
  (/\ pc \in {"classified", "done", "crashed"}
   /\ out_text # ""
   /\ Loads(Repaired(out_text)).ok
   /\ IsDict(Loads(Repaired(out_text)).val))
  => (/\ raw = SetItem(Loads(Repaired(out_text)).val, "source", JStr("llm"))
      /\ ~LlmErrorLogged)

(***************************************************************************)
(* C8: in one invocation the model's generation is called at most twice,   *)
(* and the invocation ends with a record even when every generation        *)
(* returns invalid output.                                                 *)
(***************************************************************************)
C8_RepairLoopBound ==
  /\ genCalls <= 2
  /\ (Ended /\ genCalls >= 1) => Len(stdout) = 1

\* the content is not blank and some heuristic rule matches it
RuleMatched == Strip(html) # "" /\ MatchingRules(html) # {}

(***************************************************************************)
(* C10: an emitted record has source "heuristic" exactly when a heuristic  *)
(* rule matched the non-blank content, and then the model was never        *)
(* invoked; every record built from model output has source "llm",         *)
(* whatever "source" the model's JSON contained.                           *)
(***************************************************************************)
C10_Provenance ==
  /\ RuleMatched => (genCalls = 0 /\ out_text = "")
  /\ \A i \in 1..Len(stdout) :
       /\ (Get(Emitted(i), "source") = JStr("heuristic")) <=> RuleMatched
       /\ (pc = "done" /\ genCalls = 1 /\ ~LlmErrorLogged)
            => Get(Emitted(i), "source") = JStr("llm")

\* the model's JSON claimed source "heuristic" and the record says "llm"
C10_Witness ==
  /\ pc = "done" /\ Len(stdout) = 1
  /\ Contains(out_text, "\"source\": \"heuristic\"")
  /\ Get(Emitted(1), "source") = JStr("llm")
====
